---- MODULE Spec2Model ----
(***************************************************************************)
(* Model of src/app.js: an express server relaying HubSpot webhooks.       *)
(* A request runs synchronously up to its next await on an outbound HTTP   *)
(* call; one action is one such synchronous stretch.  Requests interleave  *)
(* only at those awaits.  The outbound services (HubSpot CRM, Gemini) are  *)
(* the environment: each call returns a value or fails, chosen freely.     *)
(***************************************************************************)
EXTENDS Integers, Sequences, FiniteSets, TLC

(* ------------------------------ bounds -------------------------------- *)
MaxEvents == 2          \* longest webhook payload
WarmRequests == 24      \* malformed deal webhooks served before a warm start

(* ------------------------- program constants -------------------------- *)
LogCapacity == 50       \* logActivity keeps the last 50 entries
LogTail == 10           \* GET /activity-log shows the last 10

Requests == {1, 2}      \* requests, numbered in order of arrival

Undefined == "undefined"
NoText == "<none>"

(* ------------------------ inbound event descriptors ------------------- *)
DealEvent(d) ==
    [subscriptionType |-> "deal.creation", object |-> Undefined,
     eventId |-> Undefined, objectId |-> d]
ConversationEvent(kind, c) ==
    [subscriptionType |-> "conversation." \o kind, object |-> "conversation",
     eventId |-> kind, objectId |-> c]

Descriptors ==
    {DealEvent("d1"), ConversationEvent("created", "c1"), ConversationEvent("updated", "c1")}

RECURSIVE SeqsUpTo(_, _)
SeqsUpTo(S, n) ==
    IF n = 0 THEN {<<>>}
    ELSE LET shorter == SeqsUpTo(S, n - 1) IN
         shorter \cup {Append(s, e) : s \in {t \in shorter : Len(t) = n - 1}, e \in S}

\* req.body after express.json(): absent, a JSON object, or a JSON array
Bodies ==
    {[kind |-> "absent", events |-> <<>>], [kind |-> "object", events |-> <<>>]}
    \cup {[kind |-> "array", events |-> es] : es \in SeqsUpTo(Descriptors, MaxEvents)}

(* ------------------------ outbound service replies -------------------- *)
\* latest message of threads[0] in a conversation fetch; messages may be empty
ConversationReplies ==
    {[messages |-> 0, direction |-> Undefined, senderType |-> Undefined],
     [messages |-> 1, direction |-> "INCOMING", senderType |-> Undefined],
     [messages |-> 1, direction |-> "OUTGOING", senderType |-> "VISITOR"],
     [messages |-> 2, direction |-> Undefined, senderType |-> "AGENT"]}

Assoc(t, id) == [type |-> t, id |-> id]
AssociationReplies ==
    {<<Assoc("conversation_to_contact", "p1")>>,
     <<Assoc("conversation_to_contact", "p1"), Assoc("conversation_to_deal", "d1")>>,
     <<Assoc("conversation_to_deal", "d2"), Assoc("conversation_to_contact", "p1"),
       Assoc("conversation_to_deal", "d1")>>}

Texts == {"", "Hello"}   \* response.text() of the generation API

TestIds == {Undefined, "d1"}    \* req.body.dealId / req.body.emailId of the test routes

VARIABLES
    activityLog,    \* let activityLog = []
    appended,       \* history: every entry logActivity ever pushed
    req,            \* per request: handler position and locals
    calls,          \* history: per request, the outbound calls it issued
    notes,          \* engagements the CRM holds, in creation order
    delivered       \* number of event descriptors delivered so far

vars == <<activityLog, appended, req, calls, notes, delivered>>

(* ------------------------------ activity log -------------------------- *)
\* slice(0, k): the first k elements instead of the last k
SliceFirst(seq, k) == SubSeq(seq, 1, IF Len(seq) > k THEN k ELSE Len(seq))

\* Array.prototype.slice(-k)
SliceLast(seq, k) ==
    SubSeq(seq, IF Len(seq) > k THEN Len(seq) - k + 1 ELSE 1, Len(seq))

LogEntry(ts, message, data) == [timestamp |-> ts, message |-> message, data |-> data]

\* logActivity without its trimming step
logActivityUntrimmed(log, ts, message, data) == Append(log, LogEntry(ts, message, data))

logActivity(log, ts, message, data) ==
    LET pushed == Append(log, LogEntry(ts, message, data)) IN
    IF Len(pushed) > LogCapacity THEN SliceLast(pushed, LogCapacity) ELSE pushed

\* consecutive logActivity calls of one synchronous stretch; msgs = <<message, data>>*
RECURSIVE LogAll(_, _, _)
LogAll(log, ts, msgs) ==
    IF Len(msgs) = 0 \/ Len(log) < 0 THEN log     \* Len(log): log is computed before descending
    ELSE IF Len(msgs) = 1 THEN logActivity(log, ts + 1, msgs[1][1], msgs[1][2])
    ELSE LET half == Len(msgs) \div 2 IN
         LogAll(LogAll(log, ts, SubSeq(msgs, 1, half)), ts + half,
                SubSeq(msgs, half + 1, Len(msgs)))

Log(msgs) ==
    /\ activityLog' = LogAll(activityLog, Len(appended), msgs)
    /\ appended' = appended \o
            [k \in 1..Len(msgs) |-> LogEntry(Len(appended) + k, msgs[k][1], msgs[k][2])]

NoLog == UNCHANGED <<activityLog, appended>>

(* ------------------------------ requests ------------------------------ *)
IdleRequest ==
    [route |-> "none", body |-> [kind |-> "absent", events |-> <<>>],
     pc |-> "idle", i |-> 0, dealIds |-> <<>>, j |-> 0, text |-> NoText,
     status |-> 0, error |-> "none", message |-> "none", activities |-> <<>>]

\* the check without its length test: an empty array passes
InvalidWebhookDataNoLength(body) ==
    \/ body.kind = "absent"
    \/ body.kind # "array"

\* !req.body || !Array.isArray(req.body) || !req.body.length
InvalidWebhookData(body) ==
    \/ body.kind = "absent"
    \/ body.kind # "array"
    \/ Len(body.events) = 0

\* req.body?.length || 0
BodyLength(body) == IF body.kind = "array" THEN Len(body.events) ELSE 0

\* the conversation test with || in place of &&
IsConversationCreatedLoose(event) ==
    event.object = "conversation" \/ event.eventId = "created"

IsDealCreation(event) == event.subscriptionType = "deal.creation"
IsConversationCreated(event) ==
    event.object = "conversation" /\ event.eventId = "created"

Matches(route, event) ==
    IF route = "deal-created" THEN IsDealCreation(event) ELSE IsConversationCreated(event)

\* a loop that takes the last event at or after k the route acts on
NextMatchLast(route, events, k) ==
    LET later == {m \in k..Len(events) : Matches(route, events[m])} IN
    IF later = {} THEN 0 ELSE CHOOSE m \in later : \A n \in later : m >= n

\* the for..of loop: index of the first event at or after k the route acts on, 0 if none
NextMatch(route, events, k) ==
    LET later == {m \in k..Len(events) : Matches(route, events[m])} IN
    IF later = {} THEN 0 ELSE CHOOSE m \in later : \A n \in later : m <= n

Call(op, id, ev) ==
    [op |-> op, id |-> id, ev |-> ev, res |-> "pending", val |-> NoText, results |-> <<>>]

\* the pending call of r returns (res = "ok") or throws (res = "fail")
Settle(trace, res, val) ==
    [trace EXCEPT ![Len(trace)] = [@ EXCEPT !.res = res, !.val = val]]

ErrorMessage(op) == op \o " failed"

Respond(rq, status, error, message) ==
    [rq EXCEPT !.pc = "responded", !.status = status, !.error = error,
               !.message = message, !.dealIds = <<>>, !.j = 0, !.text = NoText]

Init ==
    /\ activityLog = <<>>
    /\ appended = <<>>
    /\ req = [r \in Requests |-> IdleRequest]
    /\ calls = [r \in Requests |-> <<>>]
    /\ notes = <<>>
    /\ delivered = 0

\* the server after k deal webhooks with a malformed body were answered 400
WarmMessages(k) ==
    [n \in 1..(2 * k) |->
        IF n % 2 = 1 THEN <<"Deal webhook received", <<"bodyLength", 0>>>>
        ELSE <<"Invalid webhook data received", <<>>>>]

InitWarm ==
    \E k \in {0, WarmRequests} :
        /\ activityLog = LogAll(<<>>, 0, WarmMessages(k))
        /\ appended = [n \in 1..(2 * k) |->
                LogEntry(n, WarmMessages(k)[n][1], WarmMessages(k)[n][2])]
        /\ req = [r \in Requests |-> IdleRequest]
        /\ calls = [r \in Requests |-> <<>>]
        /\ notes = <<>>
        /\ delivered = 0

\* request r has not arrived yet and every earlier one has
IsNext(r) ==
    /\ req[r].pc = "idle"
    /\ \A q \in Requests : q < r => req[q].pc # "idle"

\* request r arrives; its payload fits the delivery budget
Arrives(r, body) ==
    /\ IsNext(r)
    /\ delivered + Len(body.events) <= MaxEvents
    /\ delivered' = delivered + Len(body.events)

(* ------------------- POST /webhook/deal-created ----------------------- *)
\* the loop of the handler from event k on, after the logActivity calls msgs
DealLoop(r, rq, trace, k, msgs) ==
    LET m == NextMatch("deal-created", rq.body.events, k) IN
    IF m = 0
    THEN /\ Log(msgs \o <<<<"Deal webhook processed successfully", <<>>>>>>)
         /\ req' = [req EXCEPT ![r] =
                Respond([rq EXCEPT !.i = Len(rq.body.events) + 1], 200, "none",
                        "Deal webhook processed successfully")]
         /\ calls' = [calls EXCEPT ![r] = trace]
    ELSE LET dealId == rq.body.events[m].objectId IN
         /\ Log(msgs \o <<<<"Processing deal creation", <<"dealId", dealId>>>>>>)
         /\ req' = [req EXCEPT ![r] = [rq EXCEPT !.i = m, !.pc = "getDealData"]]
         /\ calls' = [calls EXCEPT ![r] = Append(trace, Call("getDealData", dealId, m))]

\* a catch that logs the error and goes on with the next event
DealCatchContinue(r, trace, op) ==
    DealLoop(r, req[r], trace, req[r].i + 1,
             <<<<"Deal webhook error", <<"error", ErrorMessage(op)>>>>>>)

\* catch (error) of the handler
DealCatch(r, trace, op) ==
    /\ Log(<<<<"Deal webhook error", <<"error", ErrorMessage(op)>>>>>>)
    /\ req' = [req EXCEPT ![r] = Respond(@, 500, "Internal server error", "none")]
    /\ calls' = [calls EXCEPT ![r] = trace]

DealWebhook(r, body) ==
    /\ Arrives(r, body)
    /\ LET rq == [req[r] EXCEPT !.route = "deal-created", !.body = body]
           received == <<"Deal webhook received", <<"bodyLength", BodyLength(body)>>>>
       IN  IF InvalidWebhookData(body)
           THEN /\ Log(<<received, <<"Invalid webhook data received", <<>>>>>>)
                /\ req' = [req EXCEPT ![r] =
                        Respond(rq, 400, "Invalid webhook data", "none")]
                /\ UNCHANGED calls
           ELSE DealLoop(r, rq, calls[r], 1, <<received>>)
    /\ UNCHANGED notes

(* --------------------------- POST /test-deal --------------------------- *)
\* objectId of the mockEvent: req.body.dealId || '12345'
TestDealId(dealId) == IF dealId = Undefined THEN "12345" ELSE dealId

\* the handler builds mockEvent and awaits processDealCreation(mockEvent)
TestDeal(r, dealId) ==
    /\ IsNext(r)
    /\ delivered + 1 <= MaxEvents
    /\ delivered' = delivered + 1
    /\ req' = [req EXCEPT ![r] =
            [@ EXCEPT !.route = "test-deal",
                      !.body = [kind |-> "object",
                                events |-> <<DealEvent(TestDealId(dealId))>>],
                      !.i = 1, !.pc = "getDealData"]]
    /\ calls' = [calls EXCEPT ![r] = Append(@, Call("getDealData", TestDealId(dealId), 1))]
    /\ UNCHANGED <<notes, activityLog, appended>>

\* res.json({ message: 'Test deal processed successfully' })
TestDealDone(r, rq, trace) ==
    /\ req' = [req EXCEPT ![r] =
            Respond([rq EXCEPT !.i = 2], 200, "none", "Test deal processed successfully")]
    /\ calls' = [calls EXCEPT ![r] = trace]
    /\ NoLog

\* catch (error): res.status(500).json({ error: error.message })
TestDealCatch(r, trace, op) ==
    /\ req' = [req EXCEPT ![r] = Respond(@, 500, ErrorMessage(op), "none")]
    /\ calls' = [calls EXCEPT ![r] = trace]
    /\ NoLog

(* ------------------------ POST /test-email-reply ----------------------- *)
\* await processEmailReply(mockEvent): no function of that name is declared,
\* the call throws a ReferenceError inside the try and the catch answers 500
TestEmailReply(r, emailId) ==
    /\ IsNext(r)
    /\ req' = [req EXCEPT ![r] =
            Respond([@ EXCEPT !.route = "test-email-reply",
                              !.body = [kind |-> "object",
                                        events |-> <<[subscriptionType |-> "communication.creation",
                                                      object |-> Undefined, eventId |-> Undefined,
                                                      objectId |-> IF emailId = Undefined
                                                                   THEN "67890" ELSE emailId]>>]],
                    500, "processEmailReply is not defined", "none")]
    /\ UNCHANGED <<calls, notes, activityLog, appended, delivered>>

(* ------------------------- processDealCreation ------------------------- *)
\* processDealCreation returned to the handler that awaited it
DealReturns(r, rq, trace, k) ==
    IF rq.route = "test-deal" THEN TestDealDone(r, rq, trace)
    ELSE DealLoop(r, rq, trace, k, <<>>)

\* processDealCreation rethrew to the handler that awaited it
DealThrows(r, trace, op) ==
    IF req[r].route = "test-deal" THEN TestDealCatch(r, trace, op)
    ELSE DealCatch(r, trace, op)

\* a fetch that is issued again after it failed
getDealDataRetries(r, ok) ==
    /\ req[r].pc = "getDealData"
    /\ UNCHANGED delivered
    /\ IF ok
       THEN /\ req' = [req EXCEPT ![r].pc = "generateEmailContent"]
            /\ calls' = [calls EXCEPT ![r] =
                    Append(Settle(@, "ok", NoText),
                           Call("generateEmailContent",
                                req[r].body.events[req[r].i].objectId, req[r].i))]
            /\ NoLog
       ELSE /\ Len(calls[r]) < 3
            /\ UNCHANGED req
            /\ calls' = [calls EXCEPT ![r] =
                    Append(Settle(@, "fail", NoText),
                           Call("getDealData",
                                req[r].body.events[req[r].i].objectId, req[r].i))]
            /\ NoLog
    /\ UNCHANGED notes

\* processDealCreation resumes after await getDealData(dealId)
getDealDataReturns(r, ok) ==
    /\ req[r].pc = "getDealData"
    /\ UNCHANGED delivered
    /\ IF ok
       THEN /\ req' = [req EXCEPT ![r].pc = "generateEmailContent"]
            /\ calls' = [calls EXCEPT ![r] =
                    Append(Settle(@, "ok", NoText),
                           Call("generateEmailContent",
                                req[r].body.events[req[r].i].objectId, req[r].i))]
            /\ NoLog
       ELSE DealThrows(r, Settle(calls[r], "fail", NoText), "getDealData")
    /\ UNCHANGED notes

\* a note body that leaves the generated text out
FollowUpBodyWithoutText(emailContent) == "AI-Generated Follow-up Email:\n\n"

FollowUpBody(emailContent) == "AI-Generated Follow-up Email:\n\n" \o emailContent

\* noteData that leaves the associations out
DealNoteUnassociated(dealId, emailContent) ==
    [emailIds |-> <<>>, dealIds |-> <<>>, body |-> FollowUpBody(emailContent)]

\* noteData of saveNoteToHubSpot
DealNote(dealId, emailContent) ==
    [emailIds |-> <<>>, dealIds |-> <<dealId>>, body |-> FollowUpBody(emailContent)]

\* processDealCreation resumes after await generateEmailContent(dealData)
generateEmailContentReturns(r, ok, text) ==
    /\ req[r].pc = "generateEmailContent"
    /\ UNCHANGED delivered
    /\ IF ok
       THEN /\ req' = [req EXCEPT ![r].pc = "saveNoteToHubSpot", ![r].text = text]
            /\ calls' = [calls EXCEPT ![r] =
                    Append(Settle(@, "ok", text),
                           Call("saveNoteToHubSpot",
                                req[r].body.events[req[r].i].objectId, req[r].i))]
            /\ NoLog
       ELSE DealThrows(r, Settle(calls[r], "fail", NoText), "generateEmailContent")
    /\ UNCHANGED notes

\* a write that is dropped when the CRM already holds a note for the deal
saveNoteToHubSpotDedup(r, ok) ==
    /\ req[r].pc = "saveNoteToHubSpot"
    /\ UNCHANGED delivered
    /\ IF ok
       THEN LET note == DealNote(req[r].body.events[req[r].i].objectId, req[r].text)
                held == \E n \in 1..Len(notes) : notes[n].note.dealIds = note.dealIds
            IN
            /\ notes' = IF held THEN notes
                        ELSE Append(notes, [note |-> note, by |-> r, ev |-> req[r].i])
            /\ DealReturns(r, [req[r] EXCEPT !.text = NoText],
                           Settle(calls[r], "ok", note.body), req[r].i + 1)
       ELSE /\ DealThrows(r, Settle(calls[r], "fail", NoText), "saveNoteToHubSpot")
            /\ UNCHANGED notes

\* processDealCreation resumes after await saveNoteToHubSpot(dealId, emailContent)
saveNoteToHubSpotReturns(r, ok) ==
    /\ req[r].pc = "saveNoteToHubSpot"
    /\ UNCHANGED delivered
    /\ IF ok
       THEN LET note == DealNote(req[r].body.events[req[r].i].objectId, req[r].text) IN
            /\ notes' = Append(notes, [note |-> note, by |-> r, ev |-> req[r].i])
            /\ DealReturns(r, [req[r] EXCEPT !.text = NoText],
                           Settle(calls[r], "ok", note.body), req[r].i + 1)
       ELSE /\ DealThrows(r, Settle(calls[r], "fail", NoText), "saveNoteToHubSpot")
            /\ UNCHANGED notes

(* ------------------- POST /webhook/email-reply ------------------------ *)
\* the loop of the handler from event k on
EmailLoop(r, rq, trace, k) ==
    LET m == NextMatch("email-reply", rq.body.events, k) IN
    IF m = 0
    THEN /\ req' = [req EXCEPT ![r] =
                Respond([rq EXCEPT !.i = Len(rq.body.events) + 1], 200, "none",
                        "Conversation webhook processed successfully")]
         /\ calls' = [calls EXCEPT ![r] = trace]
    ELSE /\ req' = [req EXCEPT ![r] =
                [rq EXCEPT !.i = m, !.pc = "getConversationData",
                           !.dealIds = <<>>, !.j = 0, !.text = NoText]]
         /\ calls' = [calls EXCEPT ![r] =
                Append(trace, Call("getConversationData", rq.body.events[m].objectId, m))]

\* a catch that logs to the console and sends no response
EmailCatchNoResponse(r, trace) ==
    /\ req' = [req EXCEPT ![r].pc = "caught"]
    /\ calls' = [calls EXCEPT ![r] = trace]

\* catch (error) of the handler: console.error only
EmailCatch(r, trace) ==
    /\ req' = [req EXCEPT ![r] = Respond(@, 500, "Internal server error", "none")]
    /\ calls' = [calls EXCEPT ![r] = trace]

EmailWebhook(r, body) ==
    /\ Arrives(r, body)
    /\ LET rq == [req[r] EXCEPT !.route = "email-reply", !.body = body] IN
       IF InvalidWebhookData(body)
       THEN /\ req' = [req EXCEPT ![r] = Respond(rq, 400, "Invalid webhook data", "none")]
            /\ UNCHANGED calls
       ELSE EmailLoop(r, rq, calls[r], 1)
    /\ UNCHANGED <<notes, activityLog, appended>>

\* latestMessage.direction || latestMessage.senderType, "NO_MESSAGES" without a latest message
Direction(reply) ==
    IF reply.messages = 0 THEN "NO_MESSAGES"
    ELSE IF reply.direction # Undefined THEN reply.direction ELSE reply.senderType

\* a test that lets every message with a direction through
IsIncomingOrOutgoing(direction) == direction \in {"INCOMING", "VISITOR", "OUTGOING"}

\* direction === 'INCOMING' || direction === 'VISITOR'
IsIncoming(direction) == direction = "INCOMING" \/ direction = "VISITOR"

\* processConversationReply resumes after await getConversationData(conversationId)
getConversationDataReturns(r, ok, reply) ==
    /\ req[r].pc = "getConversationData"
    /\ LET conversationId == req[r].body.events[req[r].i].objectId
           direction == Direction(reply)
       IN  IF ~ok
           THEN EmailCatch(r, Settle(calls[r], "fail", NoText))
           ELSE IF reply.messages = 0 \/ ~IsIncoming(direction)
           THEN EmailLoop(r, req[r], Settle(calls[r], "ok", direction), req[r].i + 1)
           ELSE /\ req' = [req EXCEPT ![r].pc = "getConversationAssociations"]
                /\ calls' = [calls EXCEPT ![r] =
                        Append(Settle(@, "ok", direction),
                               Call("getConversationAssociations", conversationId, req[r].i))]
    /\ UNCHANGED <<notes, activityLog, appended, delivered>>

\* the map without the filter: every association counts as a deal
DealIdsOfUnfiltered(results) == [k \in 1..Len(results) |-> results[k].id]

\* associations.results.filter(type === 'conversation_to_deal').map(id)
RECURSIVE DealIdsOf(_)
DealIdsOf(results) ==
    IF results = <<>> THEN <<>>
    ELSE IF Head(results).type = "conversation_to_deal"
         THEN <<Head(results).id>> \o DealIdsOf(Tail(results))
         ELSE DealIdsOf(Tail(results))

\* an association fetch whose error reaches processConversationReply
getConversationAssociationsThrows(r, ok, reply) ==
    /\ req[r].pc = "getConversationAssociations"
    /\ LET conversationId == req[r].body.events[req[r].i].objectId
           dealIds == DealIdsOf(reply)
           trace == [calls[r] EXCEPT ![Len(calls[r])] =
                        [@ EXCEPT !.res = IF ok THEN "ok" ELSE "fail",
                                  !.results = IF ok THEN reply ELSE <<>>]]
       IN  IF ~ok
           THEN EmailCatch(r, trace)
           ELSE IF Len(dealIds) = 0
           THEN EmailLoop(r, req[r], trace, req[r].i + 1)
           ELSE /\ req' = [req EXCEPT ![r].pc = "generateConversationResponse",
                                      ![r].dealIds = dealIds, ![r].j = 1]
                /\ calls' = [calls EXCEPT ![r] =
                        Append(trace, Call("generateConversationResponse",
                                           conversationId, req[r].i))]
    /\ UNCHANGED <<notes, activityLog, appended, delivered>>

\* processConversationReply resumes after await getConversationAssociations(conversationId);
\* a failed fetch was caught inside and reads as { results: [] }
getConversationAssociationsReturns(r, ok, reply) ==
    /\ req[r].pc = "getConversationAssociations"
    /\ LET conversationId == req[r].body.events[req[r].i].objectId
           results == IF ok THEN reply ELSE <<>>
           dealIds == DealIdsOf(results)
           trace == [calls[r] EXCEPT ![Len(calls[r])] =
                        [@ EXCEPT !.res = IF ok THEN "ok" ELSE "fail", !.results = results]]
       IN  IF Len(dealIds) = 0
           THEN EmailLoop(r, req[r], trace, req[r].i + 1)
           ELSE /\ req' = [req EXCEPT ![r].pc = "generateConversationResponse",
                                      ![r].dealIds = dealIds, ![r].j = 1]
                /\ calls' = [calls EXCEPT ![r] =
                        Append(trace, Call("generateConversationResponse",
                                           conversationId, req[r].i))]
    /\ UNCHANGED <<notes, activityLog, appended, delivered>>

ReplyBody(aiResponse) ==
    "AI-Generated Email Response:\n\n" \o aiResponse
        \o "\n\n--- \nThis is a suggested response to the customer's email. Please review before sending."

\* noteData of saveEmailResponseNoteToDeal
ConversationNote(emailId, aiResponse, dealId) ==
    [emailIds |-> <<emailId>>, dealIds |-> <<dealId>>, body |-> ReplyBody(aiResponse)]

\* a loop that reuses the first deal's generated text for the later deals
generateConversationResponseShared(r, ok, text) ==
    /\ req[r].pc = "generateConversationResponse"
    /\ LET run == SelectSeq(calls[r], LAMBDA c : c.ev = req[r].i)
           used == IF req[r].j > 1 THEN run[3].val ELSE text
       IN  IF ok
           THEN /\ req' = [req EXCEPT ![r].pc = "saveEmailResponseNoteToDeal",
                                      ![r].text = used]
                /\ calls' = [calls EXCEPT ![r] =
                        Append(Settle(@, "ok", text),
                               Call("saveEmailResponseNoteToDeal",
                                    req[r].dealIds[req[r].j], req[r].i))]
           ELSE EmailCatch(r, Settle(calls[r], "fail", NoText))
    /\ UNCHANGED <<notes, activityLog, appended, delivered>>

\* the for..of loop over dealIds resumes after await generateConversationResponse(subject, content)
generateConversationResponseReturns(r, ok, text) ==
    /\ req[r].pc = "generateConversationResponse"
    /\ IF ok
       THEN /\ req' = [req EXCEPT ![r].pc = "saveEmailResponseNoteToDeal", ![r].text = text]
            /\ calls' = [calls EXCEPT ![r] =
                    Append(Settle(@, "ok", text),
                           Call("saveEmailResponseNoteToDeal",
                                req[r].dealIds[req[r].j], req[r].i))]
       ELSE EmailCatch(r, Settle(calls[r], "fail", NoText))
    /\ UNCHANGED <<notes, activityLog, appended, delivered>>

\* a loop that goes on to the next deal when the write for one deal fails
saveEmailResponseNoteToDealSkipsFailed(r, ok) ==
    /\ req[r].pc = "saveEmailResponseNoteToDeal"
    /\ LET conversationId == req[r].body.events[req[r].i].objectId
           note == ConversationNote(conversationId, req[r].text, req[r].dealIds[req[r].j])
           trace == IF ok THEN Settle(calls[r], "ok", note.body)
                    ELSE Settle(calls[r], "fail", NoText)
       IN  /\ notes' = IF ok THEN Append(notes, [note |-> note, by |-> r, ev |-> req[r].i])
                       ELSE notes
           /\ IF req[r].j < Len(req[r].dealIds)
              THEN /\ req' = [req EXCEPT ![r].pc = "generateConversationResponse",
                                         ![r].j = @ + 1, ![r].text = NoText]
                   /\ calls' = [calls EXCEPT ![r] =
                           Append(trace, Call("generateConversationResponse",
                                              conversationId, req[r].i))]
              ELSE EmailLoop(r, req[r], trace, req[r].i + 1)
    /\ UNCHANGED <<activityLog, appended, delivered>>

\* a loop that deletes the notes of the conversation when a later write fails
saveEmailResponseNoteToDealRollsBack(r, ok) ==
    /\ req[r].pc = "saveEmailResponseNoteToDeal"
    /\ LET conversationId == req[r].body.events[req[r].i].objectId
           note == ConversationNote(conversationId, req[r].text, req[r].dealIds[req[r].j])
           trace == Settle(calls[r], "ok", note.body)
       IN  IF ~ok
           THEN /\ EmailCatch(r, Settle(calls[r], "fail", NoText))
                /\ notes' = SelectSeq(notes, LAMBDA n : ~(n.by = r /\ n.ev = req[r].i))
           ELSE /\ notes' = Append(notes, [note |-> note, by |-> r, ev |-> req[r].i])
                /\ IF req[r].j < Len(req[r].dealIds)
                   THEN /\ req' = [req EXCEPT ![r].pc = "generateConversationResponse",
                                              ![r].j = @ + 1, ![r].text = NoText]
                        /\ calls' = [calls EXCEPT ![r] =
                                Append(trace, Call("generateConversationResponse",
                                                   conversationId, req[r].i))]
                   ELSE EmailLoop(r, req[r], trace, req[r].i + 1)
    /\ UNCHANGED <<activityLog, appended, delivered>>

\* the loop resumes after await saveEmailResponseNoteToDeal(conversationId, aiResponse, dealId)
saveEmailResponseNoteToDealReturns(r, ok) ==
    /\ req[r].pc = "saveEmailResponseNoteToDeal"
    /\ LET conversationId == req[r].body.events[req[r].i].objectId
           note == ConversationNote(conversationId, req[r].text, req[r].dealIds[req[r].j])
           trace == Settle(calls[r], "ok", note.body)
       IN  IF ~ok
           THEN EmailCatch(r, Settle(calls[r], "fail", NoText)) /\ UNCHANGED notes
           ELSE /\ notes' = Append(notes, [note |-> note, by |-> r, ev |-> req[r].i])
                /\ IF req[r].j < Len(req[r].dealIds)
                   THEN /\ req' = [req EXCEPT ![r].pc = "generateConversationResponse",
                                              ![r].j = @ + 1, ![r].text = NoText]
                        /\ calls' = [calls EXCEPT ![r] =
                                Append(trace, Call("generateConversationResponse",
                                                   conversationId, req[r].i))]
                   ELSE EmailLoop(r, req[r], trace, req[r].i + 1)
    /\ UNCHANGED <<activityLog, appended, delivered>>

(* ------------------------- GET /activity-log -------------------------- *)
ActivityLog(r) ==
    /\ IsNext(r)
    /\ req' = [req EXCEPT ![r] =
            [Respond([@ EXCEPT !.route = "activity-log"], 200, "none", "Recent Activity Log")
                EXCEPT !.activities = SliceLast(activityLog, LogTail)]]
    /\ UNCHANGED <<activityLog, appended, calls, notes, delivered>>

Next ==
    \/ \E r \in Requests, body \in Bodies : DealWebhook(r, body)
    \/ \E r \in Requests, ok \in BOOLEAN : getDealDataReturns(r, ok)
    \/ \E r \in Requests, ok \in BOOLEAN, text \in Texts :
            generateEmailContentReturns(r, ok, text)
    \/ \E r \in Requests, ok \in BOOLEAN : saveNoteToHubSpotReturns(r, ok)
    \/ \E r \in Requests, body \in Bodies : EmailWebhook(r, body)
    \/ \E r \in Requests, ok \in BOOLEAN, reply \in ConversationReplies :
            getConversationDataReturns(r, ok, reply)
    \/ \E r \in Requests, ok \in BOOLEAN, reply \in AssociationReplies :
            getConversationAssociationsReturns(r, ok, reply)
    \/ \E r \in Requests, ok \in BOOLEAN, text \in Texts :
            generateConversationResponseReturns(r, ok, text)
    \/ \E r \in Requests, ok \in BOOLEAN : saveEmailResponseNoteToDealReturns(r, ok)
    \/ \E r \in Requests : ActivityLog(r)
    \/ \E r \in Requests, dealId \in TestIds : TestDeal(r, dealId)
    \/ \E r \in Requests, emailId \in TestIds : TestEmailReply(r, emailId)

Spec == Init /\ [][Next]_vars

\* the outbound call request r awaits returns or fails, and r resumes
Returns(r) ==
    \/ \E ok \in BOOLEAN : getDealDataReturns(r, ok)
    \/ \E ok \in BOOLEAN, text \in Texts : generateEmailContentReturns(r, ok, text)
    \/ \E ok \in BOOLEAN : saveNoteToHubSpotReturns(r, ok)
    \/ \E ok \in BOOLEAN, reply \in ConversationReplies :
            getConversationDataReturns(r, ok, reply)
    \/ \E ok \in BOOLEAN, reply \in AssociationReplies :
            getConversationAssociationsReturns(r, ok, reply)
    \/ \E ok \in BOOLEAN, text \in Texts : generateConversationResponseReturns(r, ok, text)
    \/ \E ok \in BOOLEAN : saveEmailResponseNoteToDealReturns(r, ok)

\* an awaited outbound call settles and the event loop runs its continuation:
\* while some request awaits a call, some awaited call eventually returns or fails
FairSpec == Init /\ [][Next]_vars /\ WF_vars(\E r \in Requests : Returns(r))

WarmSpec == InitWarm /\ [][Next]_vars

(* ===================== vocabulary of the properties ==================== *)
WebhookRoutes == {"deal-created", "email-reply"}

Responded(r) == req[r].pc = "responded"

\* absent, not an array, or an empty array
MalformedBody(body) ==
    \/ body.kind = "absent"
    \/ body.kind = "object"
    \/ body.kind = "array" /\ body.events = <<>>

\* the calls of request r issued for its event number ev
RunOf(r, ev) == SelectSeq(calls[r], LAMBDA c : c.ev = ev)

\* the notes the CRM holds that request r wrote, and those written for its event ev
NotesBy(r) == SelectSeq(notes, LAMBDA n : n.by = r)
NotesOf(r, ev) == SelectSeq(notes, LAMBDA n : n.by = r /\ n.ev = ev)

\* a call whose error reached the caller (a failed association fetch does not)
Threw(c) == c.res = "fail" /\ c.op # "getConversationAssociations"

CreateNoteOps == {"saveNoteToHubSpot", "saveEmailResponseNoteToDeal"}

DealCreationIndexes(events) ==
    {m \in 1..Len(events) : events[m].subscriptionType = "deal.creation"}
ConversationCreatedIndexes(events) ==
    {m \in 1..Len(events) :
        events[m].object = "conversation" /\ events[m].eventId = "created"}

OnlyLastPending(trace) == \A k \in 1..(Len(trace) - 1) : trace[k].res # "pending"

(* ------------------------------- C1 ----------------------------------- *)
\* C1: on both webhook routes a malformed body (absent, not an array, empty
\* array) is answered 400 'Invalid webhook data' and the request issues no
\* outbound call at all.
C1_MalformedBodyRejected ==
    \A r \in Requests :
        (req[r].route \in WebhookRoutes /\ MalformedBody(req[r].body)) =>
            /\ Responded(r)
            /\ req[r].status = 400
            /\ req[r].error = "Invalid webhook data"
            /\ calls[r] = <<>>
            /\ NotesBy(r) = <<>>

C1_Witness ==
    /\ req[1].route = "deal-created" /\ req[1].body.kind = "object"
    /\ req[1].status = 400
    /\ req[2].route = "email-reply" /\ req[2].body.kind = "array"
    /\ req[2].body.events = <<>> /\ req[2].status = 400

(* ------------------------------- C2 ----------------------------------- *)
\* C2: a deal webhook whose payload holds exactly one deal.creation event,
\* with no failing call, calls getDealData, generateEmailContent and
\* saveNoteToHubSpot once each in that order, each after the previous one
\* returned; the note is associated with the event's objectId, carries the
\* generated text, and the response is 200 (sent only after the three calls).
C2_Expected(dealId) ==
    <<[op |-> "getDealData", id |-> dealId],
      [op |-> "generateEmailContent", id |-> dealId],
      [op |-> "saveNoteToHubSpot", id |-> dealId]>>

C2_DealPipeline ==
    \A r \in Requests :
        LET events == req[r].body.events
            matching == DealCreationIndexes(events)
            trace == calls[r]
            issued == [k \in 1..Len(trace) |-> [op |-> trace[k].op, id |-> trace[k].id]]
        IN  (/\ req[r].route = "deal-created"
             /\ Cardinality(matching) = 1
             /\ \A k \in 1..Len(trace) : trace[k].res # "fail") =>
                LET m == CHOOSE x \in matching : TRUE
                    dealId == events[m].objectId
                    expected == C2_Expected(dealId)
                IN  /\ Len(issued) <= 3
                    /\ issued = SubSeq(expected, 1, Len(issued))
                    /\ OnlyLastPending(trace)
                    /\ req[r].status \in {0, 200}
                    /\ (Len(trace) < 3 \/ trace[3].res = "pending") =>
                            (~Responded(r) /\ NotesBy(r) = <<>>)
                    /\ Responded(r) =>
                        /\ req[r].status = 200
                        /\ Len(NotesBy(r)) = 1
                        /\ NotesBy(r)[1].note.dealIds = <<dealId>>
                        /\ NotesBy(r)[1].note.body =
                                "AI-Generated Follow-up Email:\n\n" \o trace[2].val

C2_Witness ==
    \E r \in Requests :
        /\ req[r].route = "deal-created"
        /\ Cardinality(DealCreationIndexes(req[r].body.events)) = 1
        /\ Len(req[r].body.events) = 2
        /\ req[r].status = 200
        /\ Len(NotesBy(r)) = 1
        /\ NotesBy(r)[1].note.body = "AI-Generated Follow-up Email:\n\nHello"

(* ------------------------------- C3 ----------------------------------- *)
\* ids of the conversation_to_deal associations, in association order
C3_DealsIn(results) ==
    LET deals == SelectSeq(results, LAMBDA a : a.type = "conversation_to_deal")
    IN  [k \in 1..Len(deals) |-> deals[k].id]

\* the run of event ev is over: the loop moved past it
C3_RunOver(r, ev) == req[r].i > ev

\* C3: a conversation-created event whose latest message is incoming and whose
\* associations hold n conversation_to_deal entries, with no failing call,
\* gets exactly n generate calls and n notes, alternating generate/createNote
\* in association order; note k is associated with the conversation id and
\* with deal k only, and embeds the text its own generate call returned.
C3_NotePerDeal ==
    \A r \in Requests : \A ev \in 1..Len(req[r].body.events) :
        LET run == RunOf(r, ev)
            conversationId == req[r].body.events[ev].objectId
        IN  (/\ req[r].route = "email-reply"
             /\ C3_RunOver(r, ev)
             /\ Len(run) >= 2
             /\ run[1].val \in {"INCOMING", "VISITOR"}
             /\ run[2].res = "ok"
             /\ \A k \in 1..Len(run) : run[k].res = "ok") =>
                LET dealIds == C3_DealsIn(run[2].results)
                    n == Len(dealIds)
                    written == NotesOf(r, ev)
                IN  /\ Len(run) = 2 + 2 * n
                    /\ Len(written) = n
                    /\ \A k \in 1..n :
                        /\ run[2 * k + 1].op = "generateConversationResponse"
                        /\ run[2 * k + 2].op = "saveEmailResponseNoteToDeal"
                        /\ run[2 * k + 2].id = dealIds[k]
                        /\ written[k].note.emailIds = <<conversationId>>
                        /\ written[k].note.dealIds = <<dealIds[k]>>
                        /\ written[k].note.body =
                            "AI-Generated Email Response:\n\n" \o run[2 * k + 1].val
                                \o "\n\n--- \nThis is a suggested response to the customer's email. Please review before sending."

C3_Witness ==
    \E r \in Requests : \E ev \in 1..Len(req[r].body.events) :
        /\ req[r].route = "email-reply"
        /\ req[r].status = 200
        /\ Len(RunOf(r, ev)) = 6
        /\ Len(NotesOf(r, ev)) = 2
        /\ NotesOf(r, ev)[1].note.dealIds = <<"d2">>
        /\ NotesOf(r, ev)[2].note.dealIds = <<"d1">>
        /\ NotesOf(r, ev)[1].note.body # NotesOf(r, ev)[2].note.body

(* ------------------------------- C4 ----------------------------------- *)
\* C4: an email-reply webhook with one conversation-created event whose
\* conversation has no messages, or whose latest message is not
\* INCOMING/VISITOR, issues nothing beyond the conversation fetch (no
\* association fetch, no generate, no createNote) and is answered 200.
C4_SilentNoOp ==
    \A r \in Requests :
        LET matching == ConversationCreatedIndexes(req[r].body.events) IN
        (/\ req[r].route = "email-reply"
         /\ Cardinality(matching) = 1
         /\ Len(calls[r]) >= 1
         /\ calls[r][1].res = "ok"
         /\ calls[r][1].val \notin {"INCOMING", "VISITOR"}) =>
            /\ Len(calls[r]) = 1
            /\ calls[r][1].op = "getConversationData"
            /\ NotesBy(r) = <<>>
            /\ Responded(r)
            /\ req[r].status = 200
            /\ req[r].error = "none"

C4_Witness ==
    \E r \in Requests :
        /\ req[r].route = "email-reply"
        /\ Cardinality(ConversationCreatedIndexes(req[r].body.events)) = 1
        /\ Len(calls[r]) = 1
        /\ calls[r][1].res = "ok"
        /\ calls[r][1].val = "OUTGOING"
        /\ req[r].status = 200

(* ------------------------------- C5 ----------------------------------- *)
\* an activity-log entry that describes the failure of operation op
DescribesFailure(entry, op) ==
    /\ Len(entry.data) = 2
    /\ entry.data[1] = "error"
    /\ entry.data[2] = op \o " failed"

\* C5: on either webhook route, when a createNote call fails the request is
\* answered 500 'Internal server error' and the activity log then holds an
\* entry describing that failure.
C5_NoteFailureLogged ==
    \A r \in Requests :
        (/\ req[r].route \in WebhookRoutes
         /\ Len(calls[r]) > 0
         /\ calls[r][Len(calls[r])].op \in CreateNoteOps
         /\ calls[r][Len(calls[r])].res = "fail") =>
            /\ req[r].status = 500
            /\ req[r].error = "Internal server error"
            /\ \E k \in 1..Len(activityLog) :
                    DescribesFailure(activityLog[k], calls[r][Len(calls[r])].op)

(* ------------------------------- C6 ----------------------------------- *)
MatchingIndexes(r) ==
    IF req[r].route = "deal-created" THEN DealCreationIndexes(req[r].body.events)
    ELSE IF req[r].route = "email-reply"
         THEN ConversationCreatedIndexes(req[r].body.events)
         ELSE {}

\* C6 (as stated): when the run of event k fails, every later matching event
\* of the payload still gets its pipeline run.
C6_LaterEventsStillRun ==
    \A r \in Requests : \A k \in MatchingIndexes(r), m \in MatchingIndexes(r) :
        (/\ Responded(r)
         /\ k < m
         /\ \E c \in 1..Len(RunOf(r, k)) : Threw(RunOf(r, k)[c])) =>
            RunOf(r, m) # <<>>

\* C6 (amended): a call whose error is thrown is the last call of its request:
\* the request is answered 500 at once, no later event gets a run, and the
\* deal handler logs the error once per failed request.
C6_FailureEndsRequest ==
    /\ \A r \in Requests : \A k \in 1..Len(calls[r]) :
            (req[r].route \in WebhookRoutes /\ Threw(calls[r][k])) =>
                /\ k = Len(calls[r])
                /\ Responded(r)
                /\ req[r].status = 500
                /\ req[r].error = "Internal server error"
                /\ \A m \in MatchingIndexes(r) : m > calls[r][k].ev => RunOf(r, m) = <<>>
    /\ Cardinality({k \in 1..Len(appended) : appended[k].message = "Deal webhook error"})
            = Cardinality({r \in Requests :
                            req[r].route = "deal-created" /\ req[r].status = 500})

C6_Witness ==
    \E r \in Requests :
        /\ req[r].route = "deal-created"
        /\ MatchingIndexes(r) = {1, 2}
        /\ Responded(r)
        /\ req[r].status = 500
        /\ Threw(calls[r][Len(calls[r])])
        /\ RunOf(r, 1) # <<>>
        /\ RunOf(r, 2) = <<>>

(* ------------------------------- C7 ----------------------------------- *)
OutboundOps ==
    {"getDealData", "generateEmailContent", "saveNoteToHubSpot",
     "getConversationData", "getConversationAssociations",
     "generateConversationResponse", "saveEmailResponseNoteToDeal"}

\* C7: notes once created stay created: every step only extends the notes, a
\* failing step issues no further (compensating) call, and the failed request
\* is answered 500 'Internal server error' whether or not it had written notes.
C7_NoRollback ==
    [][/\ Len(notes') >= Len(notes)
       /\ SubSeq(notes', 1, Len(notes)) = notes
       /\ \A r \in Requests :
            /\ \A k \in 1..Len(calls'[r]) : calls'[r][k].op \in OutboundOps
            /\ (/\ req'[r].route \in WebhookRoutes
                /\ Len(calls'[r]) > 0
                /\ Threw(calls'[r][Len(calls'[r])])) =>
                    /\ Len(calls'[r]) = Len(calls[r])
                    /\ req'[r].pc = "responded"
                    /\ req'[r].status = 500
                    /\ req'[r].error = "Internal server error"
                    /\ req'[r].message = "none"]_vars

C7_Witness ==
    \E r \in Requests :
        /\ req[r].route = "email-reply"
        /\ req[r].status = 500
        /\ calls[r][Len(calls[r])].op = "saveEmailResponseNoteToDeal"
        /\ calls[r][Len(calls[r])].res = "fail"
        /\ Len(NotesOf(r, calls[r][Len(calls[r])].ev)) = 1

(* ------------------------------- C8 ----------------------------------- *)
CreateNoteCalls(run) == {k \in 1..Len(run) : run[k].op \in CreateNoteOps}

\* C8 (as stated): no pipeline run issues more than one createNote call.
C8_AtMostOneNotePerRun ==
    \A r \in Requests : \A ev \in 1..Len(req[r].body.events) :
        Cardinality(CreateNoteCalls(RunOf(r, ev))) <= 1

\* C8 (amended): a run of processDealCreation issues at most one createNote
\* call; a run of processConversationReply issues at most one createNote call
\* per conversation_to_deal association it fetched, each for a different
\* position of that association list, and never writes more notes than calls.
C8_AtMostOneNotePerDeal ==
    \A r \in Requests : \A ev \in 1..Len(req[r].body.events) :
        LET run == RunOf(r, ev)
            created == CreateNoteCalls(run)
            deals == IF Len(run) >= 2 /\ run[2].op = "getConversationAssociations"
                     THEN C3_DealsIn(run[2].results) ELSE <<>>
        IN  /\ Len(NotesOf(r, ev)) <= Cardinality(created)
            /\ req[r].route = "deal-created" => Cardinality(created) <= 1
            /\ req[r].route = "email-reply" =>
                /\ Cardinality(created) <= Len(deals)
                /\ \A k \in created : k = 2 * Cardinality({c \in created : c <= k}) + 2
                /\ \A k \in created : run[k].id = deals[(k - 2) \div 2]

C8_Witness ==
    \E r \in Requests : \E ev \in 1..Len(req[r].body.events) :
        /\ req[r].route = "email-reply"
        /\ Cardinality(CreateNoteCalls(RunOf(r, ev))) = 2
        /\ Len(C3_DealsIn(RunOf(r, ev)[2].results)) = 2

(* ------------------------------- C9 ----------------------------------- *)
\* C9: in every reachable state, requests interleaving at their awaits
\* included, the activity log holds at most 50 entries.
C9_LogBounded == Len(activityLog) <= 50

InFlight(r) == req[r].pc \notin {"idle", "responded"}

C9_Witness ==
    /\ Len(appended) > 50
    /\ Len(activityLog) = 50
    /\ InFlight(1)
    /\ InFlight(2)

(* ------------------------------- C10 ---------------------------------- *)
\* the k most recently appended entries (all of them when fewer), oldest first
MostRecent(k) ==
    LET n == Len(appended)
        kept == IF n < k THEN n ELSE k
    IN  SubSeq(appended, n - kept + 1, n)

\* C10: after n appends the activity log is exactly the most recent
\* min(n, 50) entries in append order, and GET /activity-log answers with the
\* last min(n, 10) of them in append order and leaves the log as it was.
C10_FifoLogAndTail ==
    /\ [](activityLog = MostRecent(50))
    /\ [][\A r \in Requests :
            (req[r].pc = "idle" /\ req'[r].route = "activity-log") =>
                /\ req'[r].status = 200
                /\ req'[r].activities = MostRecent(10)
                /\ activityLog' = activityLog
                /\ appended' = appended]_vars

C10_Witness ==
    \E r \in Requests :
        /\ req[r].route = "activity-log"
        /\ Len(appended) > 50
        /\ Len(req[r].activities) = 10
        /\ req[r].activities = SubSeq(appended, Len(appended) - 9, Len(appended))
        /\ activityLog[1] = appended[Len(appended) - 49]

(* ------------------------------- C11 ---------------------------------- *)
\* C11: on either webhook route a descriptor of a non-empty array payload that
\* does not match the route's rule gets no call and no note and raises no
\* error (a 500 always comes with a thrown call); a payload without any
\* matching descriptor is answered 200 with no call at all.
C11_NonMatchingSkipped ==
    \A r \in Requests :
        (/\ req[r].route \in WebhookRoutes
         /\ req[r].body.kind = "array"
         /\ req[r].body.events # <<>>) =>
            /\ \A m \in (1..Len(req[r].body.events)) \ MatchingIndexes(r) :
                    RunOf(r, m) = <<>> /\ NotesOf(r, m) = <<>>
            /\ req[r].status = 500 => \E k \in 1..Len(calls[r]) : Threw(calls[r][k])
            /\ MatchingIndexes(r) = {} =>
                    /\ Responded(r)
                    /\ req[r].status = 200
                    /\ req[r].error = "none"
                    /\ calls[r] = <<>>

C11_Witness ==
    \E r \in Requests :
        /\ req[r].route = "email-reply"
        /\ Len(req[r].body.events) = 2
        /\ req[r].body.events[1].object = "conversation"
        /\ req[r].body.events[1].eventId = "updated"
        /\ req[r].body.events[2].subscriptionType = "deal.creation"
        /\ req[r].status = 200
        /\ calls[r] = <<>>

(* ------------------------------- C12 ---------------------------------- *)
\* C12: a manual trigger issues the calls of its webhook: POST /test-deal with
\* id d issues getDealData(d), generateEmailContent, saveNoteToHubSpot(d) as
\* far as no call fails, and an answered POST /test-email-reply with id c has
\* issued the conversation fetch for c first, as the email-reply webhook does
\* for a conversation-created event.
C12_ManualTriggerSameCalls ==
    \A r \in Requests :
        LET trace == calls[r]
            id == req[r].body.events[1].objectId
            issued == [k \in 1..Len(trace) |-> [op |-> trace[k].op, id |-> trace[k].id]]
        IN  /\ req[r].route = "test-deal" =>
                /\ Len(issued) \in 1..3
                /\ issued = SubSeq(C2_Expected(id), 1, Len(issued))
                /\ (Responded(r) /\ \A k \in 1..Len(trace) : trace[k].res = "ok") =>
                        Len(issued) = 3
            /\ (req[r].route = "test-email-reply" /\ Responded(r)) =>
                /\ Len(trace) >= 1
                /\ trace[1].op = "getConversationData"
                /\ trace[1].id = id

(* ------------------------------- C13 ---------------------------------- *)
FetchRecordOps == {"getDealData", "getConversationData"}
GenerateOps == {"generateEmailContent", "generateConversationResponse"}

\* C13: a failed record fetch or generate call is the last call its request
\* ever issues (it is not issued again and no later step follows, so no
\* createNote for that event comes after it), the notes of that event are the
\* ones written before the failure, and the request is answered 500.
C13_FetchOrGenerateFailureAborts ==
    \A r \in Requests : \A k \in 1..Len(calls[r]) :
        LET c == calls[r][k]
            earlier == SubSeq(calls[r], 1, k - 1)
            writes == {n \in 1..Len(earlier) :
                        /\ earlier[n].ev = c.ev
                        /\ earlier[n].op \in CreateNoteOps
                        /\ earlier[n].res = "ok"}
        IN  (c.op \in FetchRecordOps \cup GenerateOps /\ c.res = "fail") =>
                /\ k = Len(calls[r])
                /\ \A n \in 1..Len(earlier) :
                        ~(earlier[n].op = c.op /\ earlier[n].ev = c.ev /\ earlier[n].res = "fail")
                /\ Len(NotesOf(r, c.ev)) = Cardinality(writes)
                /\ Responded(r)
                /\ req[r].status = 500

C13_Witness ==
    \E r1, r2 \in Requests :
        /\ req[r1].status = 500
        /\ calls[r1] # <<>>
        /\ calls[r1][Len(calls[r1])].op \in FetchRecordOps
        /\ calls[r1][Len(calls[r1])].res = "fail"
        /\ req[r1].route \in WebhookRoutes
        /\ req[r2].status = 500
        /\ calls[r2] # <<>>
        /\ calls[r2][Len(calls[r2])].op \in GenerateOps
        /\ calls[r2][Len(calls[r2])].res = "fail"
        /\ NotesBy(r2) = <<>>

(* ------------------------------- C14 ---------------------------------- *)
\* C14: a failed association fetch reads as an empty association sequence:
\* the event's run ends with it (no generate, no createNote, no note), the
\* request goes on with its next matching event if there is one, and a
\* request in which no call threw is answered 200.
C14_AssociationFailureSwallowed ==
    \A r \in Requests : \A k \in 1..Len(calls[r]) :
        LET c == calls[r][k]
            run == RunOf(r, c.ev)
            later == {m \in ConversationCreatedIndexes(req[r].body.events) : m > c.ev}
        IN  (c.op = "getConversationAssociations" /\ c.res = "fail") =>
                /\ c.results = <<>>
                /\ Len(run) = 2
                /\ run[1].val \in {"INCOMING", "VISITOR"}
                /\ run[2] = c
                /\ NotesOf(r, c.ev) = <<>>
                /\ later # {} =>
                        /\ k < Len(calls[r])
                        /\ calls[r][k + 1].op = "getConversationData"
                        /\ \A m \in later : calls[r][k + 1].ev <= m
                        /\ calls[r][k + 1].ev \in later
                /\ later = {} => (k = Len(calls[r]) /\ Responded(r))
                /\ (Responded(r) /\ \A n \in 1..Len(calls[r]) : ~Threw(calls[r][n])) =>
                        req[r].status = 200

C14_Witness ==
    \E r \in Requests :
        /\ req[r].route = "email-reply"
        /\ req[r].status = 200
        /\ Len(calls[r]) >= 3
        /\ calls[r][2].op = "getConversationAssociations"
        /\ calls[r][2].res = "fail"
        /\ calls[r][3].op = "getConversationData"
        /\ calls[r][3].ev = 2

(* ------------------------------- C15 ---------------------------------- *)
\* C15: a generate call that returns successfully with an empty text aborts
\* the run: it is the last call of its request, no createNote is issued
\* with that text, and the request is answered 500.
C15_EmptyTextRejected ==
    \A r \in Requests : \A k \in 1..Len(calls[r]) :
        LET c == calls[r][k] IN
        (c.op \in GenerateOps /\ c.res = "ok" /\ c.val = "") =>
            /\ k = Len(calls[r])
            /\ Responded(r)
            /\ req[r].status = 500

(* ------------------------------- C16 ---------------------------------- *)
PerDealOps == {"generateConversationResponse", "saveEmailResponseNoteToDeal"}

\* the generate calls of a run, one per deal the loop reached
GenerateCalls(run) == {k \in 1..Len(run) : run[k].op = "generateConversationResponse"}

\* C16 as stated: when generate or createNote fails for one deal of a
\* conversation, every associated deal of the conversation still gets its
\* generate call by the time the request is answered, and the notes written
\* for earlier deals remain.
C16_RemainingDealsStillRun ==
    \A r \in Requests : \A k \in 1..Len(calls[r]) :
        LET c == calls[r][k]
            run == RunOf(r, c.ev)
        IN  (c.op \in PerDealOps /\ c.res = "fail" /\ Responded(r)) =>
                Cardinality(GenerateCalls(run)) = Len(C3_DealsIn(run[2].results))

\* C16 amended: the failure of generate or createNote for deal j ends the
\* request with 500, so deals j+1..n get no generate and no createNote call;
\* the notes written for deals 1..j-1 remain, each with its own deal.
C16_FailureStopsRemainingDeals ==
    \A r \in Requests : \A k \in 1..Len(calls[r]) :
        LET c == calls[r][k]
            run == RunOf(r, c.ev)
            dealIds == C3_DealsIn(run[2].results)
            j == Cardinality(GenerateCalls(run))
            written == NotesOf(r, c.ev)
        IN  (c.op \in PerDealOps /\ c.res = "fail") =>
                /\ k = Len(calls[r])
                /\ Responded(r)
                /\ req[r].status = 500
                /\ j \in 1..Len(dealIds)
                /\ Len(run) = IF c.op = "generateConversationResponse"
                              THEN 2 * j + 1 ELSE 2 * j + 2
                /\ Len(written) = j - 1
                /\ \A m \in 1..(j - 1) : written[m].note.dealIds = <<dealIds[m]>>

C16_Witness ==
    \E r \in Requests :
        LET run == RunOf(r, 1) IN
        /\ req[r].route = "email-reply"
        /\ req[r].status = 500
        /\ Len(run) = 5
        /\ Len(C3_DealsIn(run[2].results)) = 2
        /\ run[4].res = "ok"
        /\ run[5].op = "generateConversationResponse"
        /\ run[5].res = "fail"
        /\ Len(NotesOf(r, 1)) = 1
        /\ NotesOf(r, 1)[1].note.dealIds = <<run[4].id>>

(* ------------------------------- C17 ---------------------------------- *)
\* C17: the calls of one webhook request are issued for its matching events
\* in payload order, none skipped and none revisited, each call after the
\* previous call of the request settled (at most one call of a request is
\* pending, and a run's successor starts only after the run's last call
\* returned without throwing); pending calls of different requests coexist.
C17_SequentialInOrder ==
    \A r \in Requests :
        LET trace == calls[r]
            matching == MatchingIndexes(r)
        IN  req[r].route \in WebhookRoutes =>
                /\ OnlyLastPending(trace)
                /\ \A k \in 1..Len(trace) : trace[k].ev \in matching
                /\ \A k \in 1..(Len(trace) - 1) :
                        /\ trace[k].ev <= trace[k + 1].ev
                        /\ trace[k].ev < trace[k + 1].ev =>
                                (trace[k].res # "pending" /\ ~Threw(trace[k]))
                /\ trace # <<>> =>
                        \A m \in matching : m < trace[Len(trace)].ev => RunOf(r, m) # <<>>
                /\ (Responded(r) /\ req[r].status = 200) =>
                        \A m \in matching : RunOf(r, m) # <<>>

C17_Witness ==
    \E r \in Requests :
        /\ req[r].route \in WebhookRoutes
        /\ Len(RunOf(r, 1)) >= 2
        /\ Len(RunOf(r, 2)) >= 2
        /\ calls[r][Len(calls[r])].res = "pending"

(* ------------------------------- C18 ---------------------------------- *)
\* the createNote calls for deal d that returned successfully, over all requests
WritesFor(d) ==
    UNION {{<<r, k>> : k \in {n \in 1..Len(calls[r]) :
                                /\ calls[r][n].op \in CreateNoteOps
                                /\ calls[r][n].id = d
                                /\ calls[r][n].res = "ok"}} : r \in Requests}

NotesFor(d) == SelectSeq(notes, LAMBDA n : n.note.dealIds = <<d>>)

\* C18: every delivery of a deal.creation event whose calls all succeeded
\* wrote its own note for the deal whatever notes the deal already had, and
\* the CRM holds as many notes for a deal as createNote calls succeeded for
\* it: no delivery is dropped as a repetition of an earlier one.
C18_NotIdempotent ==
    /\ \A r \in Requests : \A ev \in 1..Len(req[r].body.events) :
        LET run == RunOf(r, ev) IN
        (/\ req[r].route = "deal-created"
         /\ req[r].body.events[ev].subscriptionType = "deal.creation"
         /\ C3_RunOver(r, ev)
         /\ \A k \in 1..Len(run) : run[k].res = "ok") =>
            /\ Len(run) = 3
            /\ run[3].op = "saveNoteToHubSpot"
            /\ Len(NotesOf(r, ev)) = 1
            /\ NotesOf(r, ev)[1].note.dealIds = <<req[r].body.events[ev].objectId>>
    /\ \A d \in {"d1", "d2", "12345"} : Len(NotesFor(d)) = Cardinality(WritesFor(d))

C18_Witness ==
    /\ Len(notes) = 2
    /\ notes[1].note.dealIds = <<"d1">>
    /\ notes[2].note = notes[1].note
    /\ <<notes[1].by, notes[1].ev>> # <<notes[2].by, notes[2].ev>>
    /\ \A n \in 1..2 : req[notes[n].by].route = "deal-created"

(* ------------------------------- C19 ---------------------------------- *)
\* C19: a webhook request that was received and not yet answered has status
\* 0 and awaits exactly one call; provided every call settles, a received
\* request does not stay unanswered for ever; the answer is 200, 400 or 500
\* and, for 200 and 500, comes when no call of the request is pending; once
\* answered, the request is never answered again and issues no further call.
C19_RequestLifecycle ==
    /\ [](\A r \in Requests : req[r].route \in WebhookRoutes =>
            /\ ~Responded(r) =>
                    /\ req[r].status = 0
                    /\ calls[r] # <<>>
                    /\ calls[r][Len(calls[r])].res = "pending"
            /\ Responded(r) =>
                    /\ req[r].status \in {200, 400, 500}
                    /\ \A k \in 1..Len(calls[r]) : calls[r][k].res # "pending"
                    /\ req[r].status = 400 => calls[r] = <<>>)
    /\ [][\A r \in Requests : Responded(r) =>
            (req'[r] = req[r] /\ calls'[r] = calls[r])]_vars
    /\ \A r \in Requests :
            []<>(req[r].route \in WebhookRoutes => Responded(r))

C19_Witness ==
    \E r1, r2 \in Requests :
        /\ req[r1].route = "deal-created"
        /\ req[r1].status = 200
        /\ Len(calls[r1]) = 3
        /\ req[r2].route = "email-reply"
        /\ req[r2].status = 500
        /\ calls[r2] # <<>>

(* ------------------------------- C20 ---------------------------------- *)
\* C20: every createNote call comes, in the run of its event, after a
\* successful fetch of the event's object and right after a successful
\* generate call, and the body it writes embeds that call's text; a
\* conversation note's deal id is a conversation_to_deal id of the run's
\* successful association fetch, and the latest message was incoming/visitor.
C20_NotePreceded ==
    \A r \in Requests : \A k \in 1..Len(calls[r]) :
        LET c == calls[r][k]
            run == RunOf(r, c.ev)
            p == Cardinality({n \in 1..k : calls[r][n].ev = c.ev})
            nth == Cardinality({n \in 1..p : run[n].op \in CreateNoteOps /\ run[n].res = "ok"})
        IN  c.op \in CreateNoteOps =>
                /\ p >= 3
                /\ run[p] = c
                /\ run[1].op \in FetchRecordOps
                /\ run[1].res = "ok"
                /\ run[1].id = req[r].body.events[c.ev].objectId
                /\ run[p - 1].op \in GenerateOps
                /\ run[p - 1].res = "ok"
                /\ c.res = "ok" =>
                    /\ nth <= Len(NotesOf(r, c.ev))
                    /\ NotesOf(r, c.ev)[nth].note.dealIds = <<c.id>>
                    /\ NotesOf(r, c.ev)[nth].note.body = c.val
                    /\ c.val = IF c.op = "saveNoteToHubSpot"
                               THEN "AI-Generated Follow-up Email:\n\n" \o run[p - 1].val
                               ELSE "AI-Generated Email Response:\n\n" \o run[p - 1].val
                                    \o "\n\n--- \nThis is a suggested response to the customer's email. Please review before sending."
                /\ c.op = "saveNoteToHubSpot" => (p = 3 /\ c.id = run[1].id)
                /\ c.op = "saveEmailResponseNoteToDeal" =>
                    /\ run[1].val \in {"INCOMING", "VISITOR"}
                    /\ run[2].op = "getConversationAssociations"
                    /\ run[2].res = "ok"
                    /\ \E a \in 1..Len(run[2].results) :
                            /\ run[2].results[a].type = "conversation_to_deal"
                            /\ run[2].results[a].id = c.id

C20_Witness ==
    /\ Len(notes) = 2
    /\ \E r1, r2 \in Requests :
        /\ Len(calls[r1]) = 3
        /\ calls[r1][3].op = "saveNoteToHubSpot"
        /\ calls[r1][3].res = "ok"
        /\ calls[r1][2].val = "Hello"
        /\ Len(calls[r2]) = 4
        /\ calls[r2][4].op = "saveEmailResponseNoteToDeal"
        /\ calls[r2][4].res = "ok"
        /\ calls[r2][3].val = "Hello"

TypeOK ==
    /\ Len(activityLog) <= Len(appended)
    /\ \A r \in Requests : req[r].status \in {0, 200, 400, 500}
====
